---- MODULE Spec2Model ----
(***************************************************************************)
(* SnipText API worker: magic-link authentication (routes/auth.ts) and the *)
(* metered OCR endpoint with its daily usage counter (routes/ocr.ts).      *)
(*                                                                         *)
(* The D1 tables are sets of rows; every request handler is split at its   *)
(* store statements and at the outbound provider call, so that handlers    *)
(* of concurrent requests interleave exactly where the awaits of the       *)
(* source let them.  Time is counted in minutes.                           *)
(***************************************************************************)
EXTENDS Integers, FiniteSets, Sequences, Bags, TLC

VARIABLES
    now,            \* wall clock (minutes)
    users,          \* table users: rows [id, email, plan, name, picture]
    auth_sessions,  \* table auth_sessions
    usage_daily,    \* table usage_daily: rows [user_id, date, count]
    inflight,       \* bag of handlers suspended at an await
    resp,           \* response sent by the last step (NoResp when none)
    nextUuid,       \* crypto.randomUUID(): the next fresh identifier
    issued,         \* history: every credential a login route has returned
    sessionLog,     \* history: per session id, what login/verify/poll did
                    \* (DOMAIN sessionLog: the session ids handed out so far)
    tally           \* history: OCR requests started, allowed, denied, and
                    \* provider calls failed

vars == <<now, users, auth_sessions, usage_daily, inflight, resp, nextUuid,
          issued, sessionLog, tally>>

storeVars == <<users, auth_sessions, usage_daily>>

(***************************************************************************)
(* Bounds of the model                                                     *)
(***************************************************************************)
MaxInFlight == 2    \* handlers suspended at the same time
MaxLogins == 2      \* POST /login requests in one behaviour of SpecAuth
MaxLoginsAll == 1   \* POST /login requests in one behaviour of Spec
MaxOcr == 2         \* POST /ocr requests in one behaviour of Spec
NumReq == 21        \* POST /ocr requests in one behaviour of SpecOcr
MaxNow == 15        \* the clock stops here
ClockStep == 5      \* minutes the clock advances in one step
MaxDay == 1         \* the last UTC date the gateway alone is run on
PriorUses == 18     \* uses already stored when a behaviour of SpecOcrBurst starts
MaxBurst == 4       \* POST /ocr requests in one behaviour of SpecOcrBurst

(***************************************************************************)
(* Program constants (minutes)                                             *)
(***************************************************************************)
SessionTtl == 10            \* datetime('now', '+10 minutes')
MagicTokenLife == 10080     \* 60 * 60 * 24 * 7 seconds
MinutesPerDay == 1440       \* toISOString().slice(0, 10): one UTC date
GoogleTokenLife == 43200    \* 60 * 60 * 24 * 30 seconds

(***************************************************************************)
(* Values                                                                  *)
(***************************************************************************)
\* e-mail addresses are character sequences, so that includes('@') is computed
EmailA == <<"a", "@", "x">>
EmailB == <<"b", "@", "x">>
EmailNoAt == <<"a", "x">>
EmailEmpty == <<>>
Emails == {EmailA, EmailB, EmailNoAt, EmailEmpty}

NoResp == [op |-> "none"]

\* SQL NULL, and a JSON field that is absent (falsy in the handlers)
Null == ""

\* new Date().toISOString().slice(0, 10)
DayOf(t) == t \div MinutesPerDay

(***************************************************************************)
(* Credentials                                                             *)
(***************************************************************************)
Payload(sub, email, plan, iat, exp) ==
    [sub |-> sub, email |-> email, plan |-> plan, iat |-> iat, exp |-> exp]

\* btoa(JSON.stringify(payload)): plain base64 of the JSON text, no signature
BtoaJson(payload) == [fmt |-> "b64json", payload |-> payload]

\* sign(payload, c.env.JWT_SECRET): header.payload.signature
SignJwt(payload) == [fmt |-> "jwt", payload |-> payload, key |-> "JWT_SECRET"]

\* a string that is not base64 of a JSON text
GarbageToken == [fmt |-> "garbage"]

\* a string that is base64 of a text which is not JSON
NotJsonToken == [fmt |-> "b64text"]

\* base64 of the JSON text null: it parses, and payload.sub then throws inside
\* the same try block
NullJsonToken == [fmt |-> "b64null"]

MalformedTokens == {GarbageToken, NotJsonToken, NullJsonToken}

\* JSON.parse(atob(token)): throws unless the token is base64 of a JSON text
AtobJsonParse(token) ==
    IF token.fmt = "b64json"
    THEN [ok |-> TRUE, payload |-> token.payload]
    ELSE [ok |-> FALSE]

\* Authorization header: none, or "Bearer " + token
NoHeader == [present |-> FALSE]
Bearer(token) == [present |-> TRUE, token |-> token]

(***************************************************************************)
(* Plan ceilings                                                           *)
(***************************************************************************)
OwnPlans == {"free", "pro", "pro-plus", "enterprise"}

\* the object literal `limits`
limits ==
    [p \in OwnPlans |->
        CASE p = "free" -> 20
          [] p = "pro" -> 1000
          [] p = "pro-plus" -> 5000
          [] p = "enterprise" -> 999999]

\* names every object inherits from Object.prototype: limits[name] is a function
ProtoProps == {"toString"}

\* limits[userPlan] || 20.  isNum is FALSE when the lookup yields an inherited
\* function, which is truthy and is kept as the limit.
LimitOf(plan) ==
    IF plan \in OwnPlans THEN [isNum |-> TRUE, n |-> limits[plan]]
    ELSE IF plan \in ProtoProps THEN [isNum |-> FALSE, n |-> 0]
    ELSE [isNum |-> TRUE, n |-> 20]

\* variant: off by one, used > limit
LimitReached_Strict(used, limit) == limit.isNum /\ used > limit.n

\* used >= limit; a comparison with a function is false
LimitReached(used, limit) == limit.isNum /\ used >= limit.n

(***************************************************************************)
(* Table accessors                                                         *)
(***************************************************************************)
\* SELECT count FROM usage_daily WHERE user_id = ? AND date = ?
UsageRows(userId, day) ==
    {r \in usage_daily : r.user_id = userId /\ r.date = day}

\* variant: the counter is read as 0 whatever is stored
StoredCount_Zero(userId, day) == 0

\* usage?.count || 0 for the row as it is stored now
StoredCount(userId, day) ==
    IF UsageRows(userId, day) = {} THEN 0
    ELSE (CHOOSE r \in UsageRows(userId, day) : TRUE).count

UserIds == {u.id : u \in users}

\* handlers come and go through the bag
Suspend(h) == inflight (+) SetToBag({h})
Resume(h) == inflight (-) SetToBag({h})
Replace(h, g) == (inflight (-) SetToBag({h})) (+) SetToBag({g})
Waiting(op, pc) == {h \in BagToSet(inflight) : h.op = op /\ h.pc = pc}
CanStart == BagCardinality(inflight) < MaxInFlight

(***************************************************************************)
(* Metered operation gateway: ocrRoutes                                    *)
(***************************************************************************)
\* variant: the middleware does not look at exp
AuthMiddleware_NoExpiry(header, t) ==
    IF ~header.present THEN [pass |-> FALSE, error |-> "MISSING_HEADER"]
    ELSE LET parsed == AtobJsonParse(header.token) IN
         IF ~parsed.ok THEN [pass |-> FALSE, error |-> "INVALID_TOKEN"]
         ELSE [pass |-> TRUE,
               userId |-> parsed.payload.sub,
               userPlan |-> parsed.payload.plan,
               userEmail |-> parsed.payload.email,
               claims |-> parsed.payload]

\* variant: the credential is refused from its expiry time on (exp <= now)
AuthMiddleware_ExpiredAtExp(header, t) ==
    IF ~header.present THEN [pass |-> FALSE, error |-> "MISSING_HEADER"]
    ELSE LET parsed == AtobJsonParse(header.token) IN
         IF ~parsed.ok THEN [pass |-> FALSE, error |-> "INVALID_TOKEN"]
         ELSE IF parsed.payload.exp # 0 /\ parsed.payload.exp <= t
         THEN [pass |-> FALSE, error |-> "TOKEN_EXPIRED"]
         ELSE [pass |-> TRUE,
               userId |-> parsed.payload.sub,
               userPlan |-> parsed.payload.plan,
               userEmail |-> parsed.payload.email,
               claims |-> parsed.payload]

\* ocrRoutes.use('/ocr/*'): the decision of the auth middleware on a header
AuthMiddleware(header, t) ==
    IF ~header.present THEN [pass |-> FALSE, error |-> "MISSING_HEADER"]
    ELSE LET parsed == AtobJsonParse(header.token) IN
         IF ~parsed.ok THEN [pass |-> FALSE, error |-> "INVALID_TOKEN"]
         ELSE IF parsed.payload.exp # 0 /\ parsed.payload.exp < t
         THEN [pass |-> FALSE, error |-> "TOKEN_EXPIRED"]
         ELSE [pass |-> TRUE,
               userId |-> parsed.payload.sub,
               userPlan |-> parsed.payload.plan,
               userEmail |-> parsed.payload.email,
               claims |-> parsed.payload]

OcrResp(outcome, status, h, used) ==
    [op |-> "ocr", outcome |-> outcome, status |-> status,
     userId |-> h.userId, plan |-> h.userPlan, day |-> h.today,
     usedBefore |-> h.used, used |-> used, limit |-> h.limit,
     remaining |-> h.limit.n - used, claims |-> h.claims]

\* variant: the ceiling is looked up under the plan stored for the user
OcrLocals_StoredPlan(ctx, t) ==
    LET day == DayOf(t)
        rows == UsageRows(ctx.userId, day)
        stored == {u.plan : u \in {v \in users : v.id = ctx.userId}}
    IN [op |-> "ocr", pc |-> "extract",
        userId |-> ctx.userId, userPlan |-> ctx.userPlan, today |-> day,
        hasRow |-> rows # {},
        used |-> StoredCount(ctx.userId, day),
        limit |-> LimitOf(IF stored = {} THEN ctx.userPlan
                          ELSE CHOOSE q \in stored : TRUE),
        claims |-> ctx.claims]

\* the handler's locals after the SELECT of lines 89-102
OcrLocals(ctx, t) ==
    LET day == DayOf(t)
        rows == UsageRows(ctx.userId, day)
    IN [op |-> "ocr", pc |-> "extract",
        userId |-> ctx.userId, userPlan |-> ctx.userPlan, today |-> day,
        hasRow |-> rows # {},
        used |-> StoredCount(ctx.userId, day),
        limit |-> LimitOf(ctx.userPlan),
        claims |-> ctx.claims]

\* POST /ocr up to its first await of the provider: middleware, body check,
\* SELECT of the counter and the limit check
OcrStart(header, hasImage, bound) ==
    /\ CanStart
    /\ tally.started < bound
    /\ LET ctx == AuthMiddleware(header, now) IN
       IF ~ctx.pass
       THEN /\ resp' = [op |-> "ocr", outcome |-> "UNAUTHORIZED", status |-> 401,
                        error |-> ctx.error]
            /\ tally' = [tally EXCEPT !.started = @ + 1]
            /\ UNCHANGED inflight
       ELSE IF ~hasImage
       THEN /\ resp' = [op |-> "ocr", outcome |-> "BAD_REQUEST", status |-> 400,
                        error |-> "MISSING_IMAGE"]
            /\ tally' = [tally EXCEPT !.started = @ + 1]
            /\ UNCHANGED inflight
       ELSE LET h == OcrLocals(ctx, now) IN
            IF LimitReached(h.used, h.limit)
            THEN /\ resp' = OcrResp("DENIED", 429, h, h.used)
                 /\ tally' = [tally EXCEPT !.started = @ + 1, !.denied = @ + 1]
                 /\ UNCHANGED inflight
            ELSE /\ resp' = NoResp
                 /\ tally' = [tally EXCEPT !.started = @ + 1, !.allowed = @ + 1]
                 /\ inflight' = Suspend(h)
    /\ UNCHANGED <<now, storeVars, nextUuid, issued, sessionLog>>

\* variant: the UPDATE adds two
UpdateUsage_Twice(userId, day) ==
    {IF r.user_id = userId /\ r.date = day THEN [r EXCEPT !.count = @ + 2] ELSE r
        : r \in usage_daily}

\* UPDATE usage_daily SET count = count + 1 WHERE user_id = ? AND date = ?
UpdateUsage(userId, day) ==
    {IF r.user_id = userId /\ r.date = day THEN [r EXCEPT !.count = @ + 1] ELSE r
        : r \in usage_daily}

\* variant: the table has no key, the INSERT is never refused
InsertUsageRefused_Never(userId, day) == FALSE

\* INSERT INTO usage_daily (user_id, date, count) VALUES (?, ?, 1) is refused on
\* PRIMARY KEY (user_id, date) and on FOREIGN KEY (user_id) REFERENCES users(id)
InsertUsageRefused(userId, day) ==
    \/ UsageRows(userId, day) # {}
    \/ userId \notin UserIds

InsertUsage(userId, day) ==
    usage_daily \cup {[user_id |-> userId, date |-> day, count |-> 1]}

\* callGeminiOCR returned a text
OcrExtractOk(h) ==
    /\ inflight' = Replace(h, [h EXCEPT !.pc = "write"])
    /\ resp' = NoResp
    /\ UNCHANGED <<now, storeVars, nextUuid, issued, sessionLog, tally>>

\* variant: the unit is taken although the provider call failed
OcrExtractFail_Counted(h) ==
    /\ inflight' = Resume(h)
    /\ resp' = OcrResp("EXTRACT_FAILED", 500, h, h.used)
    /\ tally' = [tally EXCEPT !.failed = @ + 1]
    /\ usage_daily' = IF h.hasRow THEN UpdateUsage(h.userId, h.today)
                      ELSE InsertUsage(h.userId, h.today)
    /\ UNCHANGED <<now, users, auth_sessions, nextUuid, issued, sessionLog>>

\* callGeminiOCR threw: the catch block answers 500
OcrExtractFail(h) ==
    /\ inflight' = Resume(h)
    /\ resp' = OcrResp("EXTRACT_FAILED", 500, h, h.used)
    /\ tally' = [tally EXCEPT !.failed = @ + 1]
    /\ UNCHANGED <<now, storeVars, nextUuid, issued, sessionLog>>

\* the usage statement of lines 121-132 and the success response
OcrWrite(h) ==
    /\ inflight' = Resume(h)
    /\ IF h.hasRow
       THEN /\ usage_daily' = UpdateUsage(h.userId, h.today)
            /\ resp' = OcrResp("OK", 200, h, h.used + 1)
       ELSE IF InsertUsageRefused(h.userId, h.today)
       THEN /\ usage_daily' = usage_daily
            /\ resp' = OcrResp("STORE_FAILED", 500, h, h.used)
       ELSE /\ usage_daily' = InsertUsage(h.userId, h.today)
            /\ resp' = OcrResp("OK", 200, h, h.used + 1)
    /\ UNCHANGED <<now, users, auth_sessions, nextUuid, issued, sessionLog, tally>>

\* the clock
Tick ==
    /\ now + ClockStep <= MaxNow
    /\ now' = now + ClockStep
    /\ resp' = NoResp
    /\ UNCHANGED <<storeVars, inflight, nextUuid, issued, sessionLog, tally>>

\* the clock passes midnight UTC
Midnight ==
    /\ DayOf(now) < MaxDay
    /\ now' = (DayOf(now) + 1) * MinutesPerDay
    /\ resp' = NoResp
    /\ UNCHANGED <<storeVars, inflight, nextUuid, issued, sessionLog, tally>>

(***************************************************************************)
(* Session lifecycle: authRoutes (magic link)                              *)
(***************************************************************************)
\* variant: only the empty e-mail is refused
ValidEmail_NonEmpty(email) == email # <<>>

\* !email || !email.includes('@') is false
ValidEmail(email) == email # <<>> /\ \E i \in DOMAIN email : email[i] = "@"

\* SELECT id, email, plan FROM users WHERE email = ?
UsersByEmail(email) == {u \in users : u.email = email}

\* INSERT INTO users is refused on email TEXT UNIQUE
InsertUserRefused(email) == UsersByEmail(email) # {}

\* a query parameter that is absent
Missing == 0

\* an identifier no randomUUID() call of the behaviour returns
Unknown == Missing - 1

\* the history entry of a session.  With watch set, the entry also keeps the
\* state of the verify call and of the poll call made on the session: "idle",
\* "running", or the outcome the call was answered with.  verifiedAtStart is
\* the verified flag of the row when the entry was made.
SessionEntry(userId, token, expires, verifiedOk, watch) ==
    [user_id |-> userId, verify_token |-> token, expires_at |-> expires,
     verifiedOk |-> verifiedOk, consumed |-> 0, verifiedAtStart |-> verifiedOk,
     watch |-> watch, verify |-> "idle", poll |-> "idle"]

LogEntry(h, expires) ==
    SessionEntry(h.user.id, h.verifyToken, expires, 0, FALSE)

\* the history after a call of op on a watched session has reached `state`
Noted(log, sessionId, op, state) ==
    IF sessionId \in DOMAIN log /\ log[sessionId].watch
    THEN [log EXCEPT ![sessionId][op] = state]
    ELSE log

\* POST /login up to its first await: the e-mail check, the two identifiers and
\* the SELECT of the user
LoginStart(email, bound) ==
    /\ CanStart
    /\ tally.logins < bound
    /\ tally' = [tally EXCEPT !.logins = @ + 1]
    /\ IF ~ValidEmail(email)
       THEN /\ resp' = [op |-> "login", outcome |-> "BAD_REQUEST", status |-> 400,
                        email |-> email]
            /\ UNCHANGED <<inflight, nextUuid>>
       ELSE /\ nextUuid' = nextUuid + 2
            /\ resp' = NoResp
            /\ LET found == UsersByEmail(email) IN
               inflight' = Suspend(
                   [op |-> "login",
                    pc |-> IF found = {} THEN "insert_user" ELSE "insert_session",
                    email |-> email,
                    sessionId |-> nextUuid,
                    verifyToken |-> nextUuid + 1,
                    user |-> IF found = {} THEN [id |-> Missing]
                             ELSE CHOOSE u \in found : TRUE])
    /\ UNCHANGED <<now, storeVars, issued, sessionLog>>

\* INSERT INTO users (id, email, plan, created_at) VALUES (?, ?, 'free', ?)
LoginInsertUser(h) ==
    /\ nextUuid' = nextUuid + 1
    /\ IF InsertUserRefused(h.email)
       THEN /\ inflight' = Resume(h)
            /\ resp' = [op |-> "login", outcome |-> "LOGIN_FAILED", status |-> 500,
                        email |-> h.email]
            /\ UNCHANGED users
       ELSE LET user == [id |-> nextUuid, email |-> h.email, plan |-> "free",
                         name |-> Null, picture |-> Null] IN
            /\ users' = users \cup {user}
            /\ inflight' = Replace(h, [h EXCEPT !.pc = "insert_session",
                                                !.user = user])
            /\ resp' = NoResp
    /\ UNCHANGED <<now, auth_sessions, usage_daily, issued, sessionLog, tally>>

\* the row of INSERT INTO auth_sessions ... datetime('now', '+10 minutes'), 0
NewSession(h, t) ==
    [session_id |-> h.sessionId, user_id |-> h.user.id,
     verify_token |-> h.verifyToken, expires_at |-> t + SessionTtl, verified |-> 0]

\* the INSERT of the session and the response with the magic link
LoginInsertSession(h) ==
    /\ auth_sessions' = auth_sessions \cup {NewSession(h, now)}
    /\ inflight' = Resume(h)
    /\ resp' = [op |-> "login", outcome |-> "OK", status |-> 200,
                email |-> h.email, sessionId |-> h.sessionId,
                verifyToken |-> h.verifyToken]
    /\ sessionLog' = sessionLog @@ (h.sessionId :> LogEntry(h, NewSession(h, now).expires_at))
    /\ UNCHANGED <<now, users, usage_daily, nextUuid, issued, tally>>

\* variant: the SELECT looks the session up by its id alone
SessionsById_Only(sessionId, token) ==
    {s \in auth_sessions : s.session_id = sessionId}

\* variant: the SELECT looks the session up by its verify token alone
SessionsByToken_Only(sessionId, token) ==
    {s \in auth_sessions : s.verify_token = token}

\* SELECT ... FROM auth_sessions WHERE session_id = ? AND verify_token = ?
SessionsByIdAndToken(sessionId, token) ==
    {s \in auth_sessions : s.session_id = sessionId /\ s.verify_token = token}

\* variant: the comparison turned round
VerifyExpired_Reversed(session, t) == session.expires_at > t

\* new Date(session.expires_at) < new Date()
VerifyExpired(session, t) == session.expires_at < t

VerifyResp(outcome, sessionId, token) ==
    [op |-> "verify", outcome |-> outcome, sessionId |-> sessionId, token |-> token]

\* GET /verify up to the UPDATE: parameter check, SELECT and expiry check
VerifyStart(sessionId, token) ==
    /\ CanStart
    /\ IF token = Missing \/ sessionId = Missing
       THEN /\ resp' = VerifyResp("INVALID_LINK", sessionId, token)
            /\ UNCHANGED inflight
       ELSE LET found == SessionsByIdAndToken(sessionId, token) IN
            IF found = {}
            THEN /\ resp' = VerifyResp("NOT_FOUND", sessionId, token)
                 /\ UNCHANGED inflight
            ELSE IF VerifyExpired(CHOOSE s \in found : TRUE, now)
            THEN /\ resp' = VerifyResp("EXPIRED", sessionId, token)
                 /\ UNCHANGED inflight
            ELSE /\ resp' = NoResp
                 /\ inflight' = Suspend([op |-> "verify", pc |-> "update",
                                         sessionId |-> sessionId, token |-> token])
    /\ sessionLog' = Noted(sessionLog, sessionId, "verify",
                           IF resp' = NoResp THEN "running" ELSE resp'.outcome)
    /\ UNCHANGED <<now, storeVars, nextUuid, issued, tally>>

\* variant: the UPDATE flips the flag
MarkVerified_Toggle(sessionId) ==
    {IF s.session_id = sessionId THEN [s EXCEPT !.verified = 1 - @] ELSE s
        : s \in auth_sessions}

\* variant: the UPDATE also renews the expiry
MarkVerified_Renew(sessionId) ==
    {IF s.session_id = sessionId
     THEN [s EXCEPT !.verified = 1, !.expires_at = now + SessionTtl] ELSE s
        : s \in auth_sessions}

\* UPDATE auth_sessions SET verified = 1 WHERE session_id = ?
MarkVerified(sessionId) ==
    {IF s.session_id = sessionId THEN [s EXCEPT !.verified = 1] ELSE s
        : s \in auth_sessions}

\* the UPDATE and the "Authentication Successful" page
VerifyUpdate(h) ==
    /\ auth_sessions' = MarkVerified(h.sessionId)
    /\ inflight' = Resume(h)
    /\ resp' = VerifyResp("OK", h.sessionId, h.token)
    /\ sessionLog' = Noted([sessionLog EXCEPT ![h.sessionId].verifiedOk = 1],
                           h.sessionId, "verify", "OK")
    /\ UNCHANGED <<now, users, usage_daily, nextUuid, issued, tally>>

\* SELECT ... FROM auth_sessions s JOIN users u ON s.user_id = u.id
\* WHERE s.session_id = ? AND s.expires_at > datetime('now')
LiveSessionsJoinUsers(sessionId, t) ==
    {[user_id |-> s.user_id, verified |-> s.verified, email |-> u.email,
      plan |-> u.plan] :
        <<s, u>> \in {p \in auth_sessions \X users :
                        /\ p[1].user_id = p[2].id
                        /\ p[1].session_id = sessionId
                        /\ p[1].expires_at > t}}

\* variant: the pending check tests the wrong value
StillPending_Inverted(session) == session.verified = 1

\* session.verified === 0
StillPending(session) == session.verified = 0

PollResp(outcome, sessionId) ==
    [op |-> "poll", outcome |-> outcome, sessionId |-> sessionId]

\* the credential of lines 417-427: seven days, base64 of the JSON text
MagicCredential(session, t) ==
    BtoaJson(Payload(session.user_id, session.email, session.plan,
                     t, t + MagicTokenLife))

\* GET /poll up to the DELETE: SELECT, the pending check and the credential
PollStart(sessionId) ==
    /\ CanStart
    /\ IF sessionId = Missing
       THEN /\ resp' = PollResp("BAD_REQUEST", sessionId)
            /\ UNCHANGED inflight
       ELSE LET found == LiveSessionsJoinUsers(sessionId, now) IN
            IF found = {}
            THEN /\ resp' = PollResp("NOT_FOUND_OR_EXPIRED", sessionId)
                 /\ UNCHANGED inflight
            ELSE LET session == CHOOSE s \in found : TRUE IN
                 IF StillPending(session)
                 THEN /\ resp' = PollResp("PENDING", sessionId)
                      /\ UNCHANGED inflight
                 ELSE /\ resp' = NoResp
                      /\ inflight' = Suspend(
                            [op |-> "poll", pc |-> "delete",
                             sessionId |-> sessionId, session |-> session,
                             token |-> MagicCredential(session, now)])
    /\ sessionLog' = Noted(sessionLog, sessionId, "poll",
                           IF resp' = NoResp THEN "running" ELSE resp'.outcome)
    /\ UNCHANGED <<now, storeVars, nextUuid, issued, tally>>

\* variant: the used session is not cleaned up
DeleteSession_Keep(sessionId) == auth_sessions

\* DELETE FROM auth_sessions WHERE session_id = ?
DeleteSession(sessionId) == {s \in auth_sessions : s.session_id # sessionId}

\* the DELETE and the response carrying the credential
PollDelete(h) ==
    /\ auth_sessions' = DeleteSession(h.sessionId)
    /\ inflight' = Resume(h)
    /\ resp' = [op |-> "poll", outcome |-> "CONSUMED", sessionId |-> h.sessionId,
                token |-> h.token, user |-> h.session]
    /\ issued' = issued \cup {h.token}
    /\ sessionLog' = Noted([sessionLog EXCEPT ![h.sessionId].consumed = @ + 1],
                           h.sessionId, "poll", "CONSUMED")
    /\ UNCHANGED <<now, users, usage_daily, nextUuid, tally>>

(***************************************************************************)
(* Federated login: authRoutes.post('/google')                             *)
(***************************************************************************)
\* what a client may send as googleToken: nothing, a token the provider does
\* not know, or an access token the provider has given out for an e-mail
NoGoogleToken == [kind |-> "none"]
BadGoogleToken == [kind |-> "bad"]
GoogleTokenFor(email) == [kind |-> "good", email |-> email]
GoogleTokens ==
    {NoGoogleToken, BadGoogleToken, GoogleTokenFor(EmailA), GoogleTokenFor(EmailB)}

\* GET oauth2/v3/tokeninfo?access_token=...: verifyResponse.ok and tokenInfo.email
TokenInfo(googleToken) ==
    IF googleToken.kind = "good"
    THEN [ok |-> TRUE, email |-> googleToken.email]
    ELSE [ok |-> FALSE]

\* the outcome of the block "Verify Google token" for a request, before the
\* provider was asked
NotIntrospected == [done |-> FALSE]

GoogleResp(outcome, status, h) ==
    [op |-> "google", outcome |-> outcome, status |-> status, email |-> h.email,
     googleToken |-> h.googleToken, checked |-> h.checked]

\* the handler after SELECT ... FROM users WHERE email = ?
GoogleAfterSelect(h) ==
    LET found == UsersByEmail(h.email) IN
    IF found = {} THEN [h EXCEPT !.pc = "insert_user"]
    ELSE IF h.name # Null \/ h.picture # Null
    THEN [h EXCEPT !.pc = "update_user", !.user = CHOOSE u \in found : TRUE]
    ELSE [h EXCEPT !.pc = "sign", !.user = CHOOSE u \in found : TRUE]

\* the credential of lines 71-80: thirty days, a signed JWT
GoogleCredential(user, t) ==
    SignJwt(Payload(user.id, user.email, user.plan, t, t + GoogleTokenLife))

\* the success response with the credential
GoogleIssue(h, user) ==
    /\ resp' = GoogleResp("OK", 200, h) @@
                  [token |-> GoogleCredential(user, now), user |-> user]
    /\ issued' = issued \cup {GoogleCredential(user, now)}

\* the handler goes on from the SELECT: it answers when the user exists and
\* nothing is to be updated, and waits for its INSERT or UPDATE otherwise
GoogleContinue(h, old) ==
    LET g == GoogleAfterSelect(h) IN
    IF g.pc = "sign"
    THEN /\ GoogleIssue(g, g.user)
         /\ inflight' = (IF old.pc = "none" THEN inflight ELSE Resume(old))
    ELSE /\ resp' = NoResp
         /\ inflight' = (IF old.pc = "none" THEN Suspend(g) ELSE Replace(old, g))
         /\ UNCHANGED issued

\* POST /google up to its first await: the e-mail check, then the fetch of
\* the provider when a googleToken was sent, the SELECT of the user otherwise
GoogleStart(email, googleToken, name, picture, bound) ==
    /\ CanStart
    /\ tally.logins < bound
    /\ tally' = [tally EXCEPT !.logins = @ + 1]
    /\ LET h == [op |-> "google", pc |-> "none", email |-> email,
                 googleToken |-> googleToken, name |-> name, picture |-> picture,
                 checked |-> NotIntrospected, user |-> [id |-> Missing]]
       IN IF email = EmailEmpty
          THEN /\ resp' = GoogleResp("BAD_REQUEST", 400, h)
               /\ UNCHANGED <<inflight, issued>>
          ELSE IF googleToken # NoGoogleToken
          THEN /\ resp' = NoResp
               /\ inflight' = Suspend([h EXCEPT !.pc = "introspect"])
               /\ UNCHANGED issued
          ELSE GoogleContinue(h, h)
    /\ UNCHANGED <<now, storeVars, nextUuid, sessionLog>>

\* the provider has answered (or the fetch has thrown): 401 unless the answer
\* is ok and names the claimed e-mail, then the SELECT of the user
GoogleIntrospect(h, fetched) ==
    LET info == TokenInfo(h.googleToken)
        g == [h EXCEPT !.checked = [done |-> TRUE, fetched |-> fetched, info |-> info]]
    IN
    /\ IF ~fetched
       THEN /\ resp' = GoogleResp("VERIFY_FAILED", 401, g)
            /\ inflight' = Resume(h)
            /\ UNCHANGED issued
       ELSE IF ~info.ok
       THEN /\ resp' = GoogleResp("INVALID_TOKEN", 401, g)
            /\ inflight' = Resume(h)
            /\ UNCHANGED issued
       ELSE IF info.email # h.email
       THEN /\ resp' = GoogleResp("EMAIL_MISMATCH", 401, g)
            /\ inflight' = Resume(h)
            /\ UNCHANGED issued
       ELSE GoogleContinue(g, h)
    /\ UNCHANGED <<now, storeVars, nextUuid, sessionLog, tally>>

\* INSERT INTO users (id, email, name, picture, plan, created_at) and the
\* response; the INSERT is refused on email TEXT UNIQUE
GoogleInsertUser(h) ==
    /\ nextUuid' = nextUuid + 1
    /\ inflight' = Resume(h)
    /\ IF InsertUserRefused(h.email)
       THEN /\ resp' = GoogleResp("LOGIN_FAILED", 500, h)
            /\ UNCHANGED <<users, issued>>
       ELSE LET user == [id |-> nextUuid, email |-> h.email, plan |-> "free",
                         name |-> h.name, picture |-> h.picture] IN
            /\ users' = users \cup {user}
            /\ GoogleIssue(h, user)
    /\ UNCHANGED <<now, auth_sessions, usage_daily, sessionLog, tally>>

\* UPDATE users SET name = ?, picture = ?, updated_at = ? WHERE id = ? bound to
\* name || user.name, picture || user.picture, and the response
GoogleUpdateUser(h) ==
    /\ users' = {IF u.id = h.user.id
                  THEN [u EXCEPT !.name = IF h.name # Null THEN h.name ELSE h.user.name,
                                 !.picture = IF h.picture # Null THEN h.picture
                                             ELSE h.user.picture]
                  ELSE u : u \in users}
    /\ inflight' = Resume(h)
    /\ GoogleIssue(h, h.user)
    /\ UNCHANGED <<now, auth_sessions, usage_daily, nextUuid, sessionLog, tally>>

(***************************************************************************)
(* Credential refresh: authRoutes.post('/refresh')                         *)
(***************************************************************************)
\* a JWT signed with a key that is not the worker's
ForeignJwt == [fmt |-> "jwt", payload |-> Payload(Unknown, EmailB, "enterprise", 0, 0),
               key |-> "other"]

\* verify(token, c.env.JWT_SECRET): throws unless the token is a JWT signed
\* with the secret whose exp, when present, is still ahead
JwtVerify(token, t) ==
    IF /\ token.fmt = "jwt"
       /\ token.key = "JWT_SECRET"
       /\ ~(token.payload.exp # 0 /\ token.payload.exp <= t)
    THEN [ok |-> TRUE, payload |-> token.payload]
    ELSE [ok |-> FALSE]

\* SELECT id, email, plan FROM users WHERE id = ?
UsersById(id) == {u \in users : u.id = id}

RefreshResp(outcome, status, header) ==
    [op |-> "refresh", outcome |-> outcome, status |-> status, header |-> header]

\* POST /refresh: the header check, verify, the SELECT of the user and the new
\* thirty-day JWT with the plan just read
Refresh(header) ==
    /\ CanStart
    /\ IF ~header.present
       THEN /\ resp' = RefreshResp("UNAUTHORIZED", 401, header)
            /\ UNCHANGED issued
       ELSE LET checked == JwtVerify(header.token, now) IN
            IF ~checked.ok
            THEN /\ resp' = RefreshResp("REFRESH_FAILED", 500, header)
                 /\ UNCHANGED issued
            ELSE LET found == UsersById(checked.payload.sub) IN
                 IF found = {}
                 THEN /\ resp' = RefreshResp("NOT_FOUND", 404, header)
                      /\ UNCHANGED issued
                 ELSE LET user == CHOOSE u \in found : TRUE
                          newToken == SignJwt(Payload(user.id, user.email, user.plan,
                                                      now, now + GoogleTokenLife))
                      IN /\ resp' = RefreshResp("OK", 200, header) @@
                                       [token |-> newToken, user |-> user]
                         /\ issued' = issued \cup {newToken}
    /\ UNCHANGED <<now, storeVars, inflight, nextUuid, sessionLog, tally>>

\* the plan column of a user row is rewritten from outside the worker (no
\* route writes it); the column only admits the four plan names
ChangePlan(userId, plan) ==
    /\ plan \in OwnPlans
    /\ \E u \in users : u.id = userId /\ u.plan # plan
    /\ users' = {IF u.id = userId THEN [u EXCEPT !.plan = plan] ELSE u : u \in users}
    /\ resp' = NoResp
    /\ UNCHANGED <<now, auth_sessions, usage_daily, inflight, nextUuid, issued,
                   sessionLog, tally>>

(***************************************************************************)
(* The system from an empty database                                       *)
(***************************************************************************)
Init ==
    /\ now = 0
    /\ users = {}
    /\ auth_sessions = {}
    /\ usage_daily = {}
    /\ inflight = EmptyBag
    /\ resp = NoResp
    /\ nextUuid = 1
    /\ issued = {}
    /\ sessionLog = [s \in {} |-> 0]
    /\ tally = [started |-> 0, allowed |-> 0, denied |-> 0, failed |-> 0,
                logins |-> 0]

\* what a client may send as session id and as verify token: every identifier
\* handed out so far, one that never was, and (once) an absent parameter
SessionIdInputs == DOMAIN sessionLog \cup {Unknown}
TokenInputs == {sessionLog[s].verify_token : s \in DOMAIN sessionLog} \cup {Unknown}
VerifyInputs ==
    (SessionIdInputs \X TokenInputs) \cup {<<Missing, Unknown>>, <<Unknown, Missing>>}

NextAuth ==
    \/ \E e \in Emails : LoginStart(e, MaxLogins)
    \/ \E h \in Waiting("login", "insert_user") : LoginInsertUser(h)
    \/ \E h \in Waiting("login", "insert_session") : LoginInsertSession(h)
    \/ \E in \in VerifyInputs : VerifyStart(in[1], in[2])
    \/ \E h \in Waiting("verify", "update") : VerifyUpdate(h)
    \/ \E s \in SessionIdInputs \cup {Missing} : PollStart(s)
    \/ \E h \in Waiting("poll", "delete") : PollDelete(h)
    \/ Tick

SpecAuth == Init /\ [][NextAuth]_vars

\* sequential runs of the auth routes: a request starts when none is in flight
NextAuthSeq ==
    \/ /\ inflight = EmptyBag
       /\ \/ \E e \in Emails : LoginStart(e, MaxLogins)
          \/ \E in \in VerifyInputs : VerifyStart(in[1], in[2])
          \/ \E s \in SessionIdInputs \cup {Missing} : PollStart(s)
    \/ \E h \in Waiting("login", "insert_user") : LoginInsertUser(h)
    \/ \E h \in Waiting("login", "insert_session") : LoginInsertSession(h)
    \/ \E h \in Waiting("verify", "update") : VerifyUpdate(h)
    \/ \E h \in Waiting("poll", "delete") : PollDelete(h)
    \/ Tick

SpecAuthSeq == Init /\ [][NextAuthSeq]_vars

(***************************************************************************)
(* Claims about the session lifecycle                                      *)
(***************************************************************************)
\* the stored row of a session id (empty when there is none)
Row(sessionId) == {s \in auth_sessions : s.session_id = sessionId}

\* the response just sent answers a poll of a session for which a verify has
\* answered OK
PollAfterVerifyOk ==
    /\ resp.op = "poll"
    /\ resp.sessionId \in DOMAIN sessionLog
    /\ sessionLog[resp.sessionId].verifiedOk = 1

C3_AtMostOneConsumed ==
    \A s \in DOMAIN sessionLog : sessionLog[s].consumed <= 1

\* C5 (as claimed): no session is switched from verified = 0 to verified = 1 at
\* a time later than its expiry.
C5_NeverVerifiedAfterExpiry ==
    [][\A s \in auth_sessions : \A t \in auth_sessions' :
          (t.session_id = s.session_id /\ s.verified = 0 /\ t.verified = 1)
          => now' <= s.expires_at]_vars

\* a request of the given route for the given session is answered by the step
\* that started it (the step suspends nothing and resumes nothing)
AnsweredAtOnce(op, sessionId) ==
    /\ resp'.op = op
    /\ resp'.sessionId = sessionId
    /\ inflight' = inflight

\* the step suspends a new handler of the given route for the given session
NewlySuspended(op, sessionId) ==
    \E h \in BagToSet(inflight') :
        /\ h.op = op
        /\ h.sessionId = sessionId
        /\ CopiesIn(h, inflight') > CopiesIn(h, inflight)

\* C6: once the expiry of a session has passed, a verify with its id and token
\* answers EXPIRED and a poll of it answers NOT_FOUND_OR_EXPIRED, verified or
\* not, and neither touches the table: no such request gets as far as its
\* UPDATE or DELETE.
C6_ExpiredSessionRejected ==
    [][\A s \in auth_sessions :
          s.expires_at < now =>
            /\ (AnsweredAtOnce("verify", s.session_id) /\ resp'.token = s.verify_token)
               => (resp'.outcome = "EXPIRED" /\ auth_sessions' = auth_sessions)
            /\ AnsweredAtOnce("poll", s.session_id)
               => (resp'.outcome = "NOT_FOUND_OR_EXPIRED"
                   /\ auth_sessions' = auth_sessions)
            /\ ~NewlySuspended("verify", s.session_id)
            /\ ~NewlySuspended("poll", s.session_id)]_vars

\* C6 witness: a poll of a verified session was refused after its expiry, the
\* row still in place
C6_Witness ==
    /\ resp.op = "poll"
    /\ resp.outcome = "NOT_FOUND_OR_EXPIRED"
    /\ \E s \in Row(resp.sessionId) : s.verified = 1 /\ s.expires_at < now

\* C7: a verify whose token is not the verify token stored for its session id
\* answers NOT_FOUND and changes no session row, also when the token is the
\* verify token of another session.
C7_WrongTokenNotFound ==
    [][(/\ resp'.op = "verify"
        /\ resp'.sessionId \in DOMAIN sessionLog
        /\ resp'.token # sessionLog[resp'.sessionId].verify_token)
       => (resp'.outcome = "NOT_FOUND" /\ auth_sessions' = auth_sessions)]_vars

\* C7 witness: NOT_FOUND for a stored, unexpired session id presented with the
\* token of another stored, unexpired session
C7_Witness ==
    /\ resp.op = "verify"
    /\ resp.outcome = "NOT_FOUND"
    /\ \E s \in Row(resp.sessionId) : s.expires_at > now
    /\ \E s \in auth_sessions :
          /\ s.session_id # resp.sessionId
          /\ s.verify_token = resp.token
          /\ s.expires_at > now

\* C8 (as claimed): every poll of a stored session that is not verified answers
\* PENDING and leaves the table as it is.
C8_UnverifiedAlwaysPending ==
    [][\A s \in auth_sessions :
          (s.verified = 0 /\ resp'.op = "poll" /\ resp'.sessionId = s.session_id)
          => (resp'.outcome = "PENDING" /\ auth_sessions' = auth_sessions)]_vars

\* C8 (amended): every poll of a stored session that is not verified answers
\* PENDING while the session is unexpired and NOT_FOUND_OR_EXPIRED from its
\* expiry time on, never CONSUMED, and leaves the table as it is.
C8_UnverifiedNeverConsumed ==
    [][\A s \in auth_sessions :
          (s.verified = 0 /\ resp'.op = "poll" /\ resp'.sessionId = s.session_id)
          => /\ resp'.outcome =
                  IF s.expires_at > now THEN "PENDING" ELSE "NOT_FOUND_OR_EXPIRED"
             /\ auth_sessions' = auth_sessions]_vars

\* C8 witness: PENDING was answered for a stored, unverified session
C8_Witness ==
    /\ resp.op = "poll"
    /\ resp.outcome = "PENDING"
    /\ \E s \in Row(resp.sessionId) : s.verified = 0

\* C16: a verify that presents the right pair for a session which is already
\* verified and not expired is answered OK, and the step that answers it
\* leaves the session row (flag, expiry, owner, token) and every other row of
\* every table as it was; no such verify is answered with an error.
C16_VerifyIdempotent ==
    [][\A s \in auth_sessions :
          (/\ s.verified = 1
           /\ now <= s.expires_at
           /\ resp'.op = "verify"
           /\ resp'.sessionId = s.session_id
           /\ resp'.token = s.verify_token)
          => /\ resp'.outcome = "OK"
             /\ storeVars' = storeVars]_vars

\* C16 witness: a verify with the right pair has passed its checks on a
\* session that an earlier verify has already switched to verified, and waits
\* for its UPDATE
C16_Witness ==
    \E h \in Waiting("verify", "update") : \E s \in Row(h.sessionId) :
        /\ h.token = s.verify_token
        /\ s.verified = 1
        /\ sessionLog[s.session_id].verifiedOk = 1
        /\ now <= s.expires_at

\* C17 (as claimed): every startLogin call for a valid e-mail is answered with
\* a session, and the step that answers it adds exactly one session row, not
\* verified, expiring SessionTtl from now, whose id and verify token are those
\* returned and are used by no other row, and leaves every other session row
\* as it was.
C17_EachLoginAddsOneSession ==
    [][(resp'.op = "login" /\ ValidEmail(resp'.email))
       => /\ resp'.outcome = "OK"
          /\ \E new \in auth_sessions' :
                /\ new \notin auth_sessions
                /\ auth_sessions' = auth_sessions \cup {new}
                /\ new.session_id = resp'.sessionId
                /\ new.verify_token = resp'.verifyToken
                /\ new.verified = 0
                /\ new.expires_at = now + SessionTtl
                /\ \E u \in users : u.id = new.user_id /\ u.email = resp'.email
                /\ \A old \in auth_sessions :
                      /\ old.session_id # new.session_id
                      /\ old.verify_token # new.verify_token
                      /\ old.session_id # new.verify_token
                      /\ old.verify_token # new.session_id]_vars

\* C18 (as claimed): there is at most one user row per e-mail, and every
\* startLogin call for a valid e-mail is answered with a session whose owner
\* is the user row of that e-mail, also when calls for the same unseen e-mail
\* run together.
C18_OneUserPerEmailEveryLoginServed ==
    /\ \A u \in users : \A v \in users : u.email = v.email => u = v
    /\ (resp.op = "login" /\ ValidEmail(resp.email))
       => /\ resp.outcome = "OK"
          /\ \E s \in Row(resp.sessionId) : \E u \in users :
                /\ u.id = s.user_id
                /\ u.email = resp.email

\* C22: the verified flag of a session goes from 0 to 1 only in the step that
\* answers OK to a verify which presented that session's id together with that
\* session's verify token; no verify with only one of the two, no login step
\* and no poll step sets it, and no session is stored as verified.
C22_VerifiedOnlyByRightPair ==
    [][\A t \in auth_sessions' :
          t.verified = 1 =>
             \/ t \in auth_sessions
             \/ /\ \E s \in auth_sessions : s = [t EXCEPT !.verified = 0]
                /\ resp'.op = "verify"
                /\ resp'.outcome = "OK"
                /\ resp'.sessionId = t.session_id
                /\ resp'.token = t.verify_token]_vars

\* C22 witness: one session was verified by its pair while a second session
\* is stored unverified
C22_Witness ==
    /\ resp.op = "verify"
    /\ resp.outcome = "OK"
    /\ \E s \in Row(resp.sessionId) : s.verified = 1 /\ s.verify_token = resp.token
    /\ \E s \in auth_sessions : s.session_id # resp.sessionId /\ s.verified = 0

\* C23: as long as a session row is stored, its expiry time, its owner and its
\* verify token stay what they were, and its verified flag never goes from 1
\* back to 0.
C23_SessionRowFrame ==
    [][\A s \in auth_sessions : \A t \in auth_sessions' :
          t.session_id = s.session_id
          => /\ t.expires_at = s.expires_at
             /\ t.user_id = s.user_id
             /\ t.verify_token = s.verify_token
             /\ t.verified >= s.verified]_vars

\* C23 witness: a verified session is stored past its expiry next to a second
\* session
C23_Witness ==
    /\ \E s \in auth_sessions :
          /\ s.verified = 1
          /\ s.expires_at < now
          /\ \E t \in auth_sessions : t.session_id # s.session_id
    /\ resp.op = "verify"

(***************************************************************************)
(* The gateway alone, for one user who has logged in by magic link         *)
(***************************************************************************)
\* the store and the credential after one login / verify / poll at time 0
FirstUser ==
    [id |-> 3, email |-> EmailA, plan |-> "free", name |-> Null, picture |-> Null]
FirstCredential == BtoaJson(Payload(3, EmailA, "free", 0, MagicTokenLife))

InitOcr ==
    /\ now = 0
    /\ users = {FirstUser}
    /\ auth_sessions = {}
    /\ usage_daily = {}
    /\ inflight = EmptyBag
    /\ resp = NoResp
    /\ nextUuid = 4
    /\ issued = {FirstCredential}
    /\ sessionLog = [s \in {} |-> 0]
    /\ tally = [started |-> 0, allowed |-> 0, denied |-> 0, failed |-> 0,
                logins |-> 0]

NextOcr ==
    \/ \E c \in issued : OcrStart(Bearer(c), TRUE, NumReq)
    \/ \E h \in Waiting("ocr", "extract") : OcrExtractOk(h)
    \/ \E h \in Waiting("ocr", "extract") : OcrExtractFail(h)
    \/ \E h \in Waiting("ocr", "write") : OcrWrite(h)
    \/ Midnight

SpecOcr == InitOcr /\ [][NextOcr]_vars

(***************************************************************************)
(* The whole worker from an empty database                                 *)
(***************************************************************************)
\* payloads a client can write itself: an issued one with the plan replaced,
\* and one made up from nothing (unknown subject, no expiry)
ForgedPayloads ==
    {[c.payload EXCEPT !.plan = "enterprise"] : c \in issued}
        \cup {Payload(Unknown, EmailB, "toString", 0, 0)}

\* Authorization headers a client may send
HeaderInputs ==
    {NoHeader, Bearer(GarbageToken)}
        \cup {Bearer(c) : c \in issued}
        \cup {Bearer(BtoaJson(p)) : p \in ForgedPayloads}

Next ==
    \/ \E e \in Emails : LoginStart(e, MaxLoginsAll)
    \/ \E h \in Waiting("login", "insert_user") : LoginInsertUser(h)
    \/ \E h \in Waiting("login", "insert_session") : LoginInsertSession(h)
    \/ \E in \in VerifyInputs : VerifyStart(in[1], in[2])
    \/ \E h \in Waiting("verify", "update") : VerifyUpdate(h)
    \/ \E s \in SessionIdInputs \cup {Missing} : PollStart(s)
    \/ \E h \in Waiting("poll", "delete") : PollDelete(h)
    \/ \E hd \in HeaderInputs, img \in BOOLEAN : OcrStart(hd, img, MaxOcr)
    \/ \E h \in Waiting("ocr", "extract") : OcrExtractOk(h)
    \/ \E h \in Waiting("ocr", "extract") : OcrExtractFail(h)
    \/ \E h \in Waiting("ocr", "write") : OcrWrite(h)
    \/ Tick

Spec == Init /\ [][Next]_vars

\* sequential runs of the gateway: a request starts when none is in flight
NextOcrSeq ==
    \/ /\ inflight = EmptyBag
       /\ \E c \in issued : OcrStart(Bearer(c), TRUE, NumReq)
    \/ \E h \in Waiting("ocr", "extract") : OcrExtractOk(h)
    \/ \E h \in Waiting("ocr", "extract") : OcrExtractFail(h)
    \/ \E h \in Waiting("ocr", "write") : OcrWrite(h)
    \/ Midnight

SpecOcrSeq == InitOcr /\ [][NextOcrSeq]_vars

(***************************************************************************)
(* The gateway under a burst of requests of a user close to the ceiling    *)
(***************************************************************************)
\* the store after PriorUses successful requests of FirstUser on day 0
InitOcrBurst ==
    /\ now = 0
    /\ users = {FirstUser}
    /\ auth_sessions = {}
    /\ usage_daily = {[user_id |-> FirstUser.id, date |-> 0, count |-> PriorUses]}
    /\ inflight = EmptyBag
    /\ resp = NoResp
    /\ nextUuid = 4
    /\ issued = {FirstCredential}
    /\ sessionLog = [s \in {} |-> 0]
    /\ tally = [started |-> PriorUses, allowed |-> PriorUses, denied |-> 0,
                failed |-> 0, logins |-> 0]

NextOcrBurst ==
    \/ \E c \in issued : OcrStart(Bearer(c), TRUE, PriorUses + MaxBurst)
    \/ \E h \in Waiting("ocr", "extract") : OcrExtractOk(h)
    \/ \E h \in Waiting("ocr", "extract") : OcrExtractFail(h)
    \/ \E h \in Waiting("ocr", "write") : OcrWrite(h)
    \/ Midnight

SpecOcrBurst == InitOcrBurst /\ [][NextOcrBurst]_vars

(***************************************************************************)
(* Claims about the quota ledger                                           *)
(***************************************************************************)
FreeCeiling == LimitOf(FirstUser.plan).n

\* C1 (as claimed): when NumReq > L requests of one fresh user on one day,
\* under the plan with ceiling L, have all completed (and no provider call
\* failed), exactly L were allowed, NumReq - L were denied and the stored
\* count is L.
C1_ExactlyCeilingAllowed ==
    (/\ tally.started = NumReq
     /\ tally.failed = 0
     /\ inflight = EmptyBag
     /\ DayOf(now) = 0
     /\ NumReq > FreeCeiling)
    => /\ tally.allowed = FreeCeiling
       /\ tally.denied = NumReq - FreeCeiling
       /\ StoredCount(FirstUser.id, 0) = FreeCeiling

CountIn(table, userId, day) ==
    LET rows == {r \in table : r.user_id = userId /\ r.date = day}
    IN IF rows = {} THEN 0 ELSE (CHOOSE r \in rows : TRUE).count

\* the rows of a usage table other than the one of (userId, day)
OthersIn(table, userId, day) ==
    {r \in table : ~(r.user_id = userId /\ r.date = day)}

\* C11: the step that answers a request with success raises the stored count
\* of its (user, day) by exactly one and changes no other usage row; the step
\* that answers a failed extraction call changes no usage row; and no other
\* step changes a usage row.  This holds with requests of the same user in
\* flight together.
C11_CountedOncePerSuccess ==
    [][/\ (resp'.op = "ocr" /\ resp'.outcome = "OK")
          => /\ CountIn(usage_daily', resp'.userId, resp'.day)
                  = CountIn(usage_daily, resp'.userId, resp'.day) + 1
             /\ OthersIn(usage_daily', resp'.userId, resp'.day)
                  = OthersIn(usage_daily, resp'.userId, resp'.day)
       /\ (resp'.op = "ocr" /\ resp'.outcome = "EXTRACT_FAILED")
          => usage_daily' = usage_daily
       /\ usage_daily' # usage_daily
          => (resp'.op = "ocr" /\ resp'.outcome = "OK")]_vars

\* C11 witness: a success was recorded on top of a stored count while another
\* request of the same user was in flight
C11_Witness ==
    /\ resp.op = "ocr"
    /\ resp.outcome = "OK"
    /\ resp.usedBefore > 0
    /\ StoredCount(resp.userId, resp.day) > resp.used
    /\ inflight # EmptyBag

\* a step that starts a metered request which passes the credential check and
\* the body check
OcrRequestStarted ==
    /\ tally'.started = tally.started + 1
    /\ resp'.op = "ocr" => resp'.outcome \notin {"UNAUTHORIZED", "BAD_REQUEST"}

\* C12: a metered request that arrives when the stored count of its (user,
\* day) is at or above the ceiling of its plan is denied with the stored count
\* as used and the ceiling as limit, makes no extraction call (no handler is
\* suspended at the provider) and leaves every table unchanged.
C12_DeniedAtOrAboveCeiling ==
    [][(/\ OcrRequestStarted
        /\ CountIn(usage_daily, FirstUser.id, DayOf(now)) >= FreeCeiling)
       => /\ resp'.op = "ocr"
          /\ resp'.outcome = "DENIED"
          /\ resp'.status = 429
          /\ resp'.used = CountIn(usage_daily, FirstUser.id, DayOf(now))
          /\ resp'.limit = [isNum |-> TRUE, n |-> FreeCeiling]
          /\ inflight' = inflight
          /\ storeVars' = storeVars]_vars

\* C12 witness: a request was denied with a stored count above the ceiling
C12_Witness ==
    /\ resp.op = "ocr"
    /\ resp.outcome = "DENIED"
    /\ resp.used > FreeCeiling
    /\ CountIn(usage_daily, resp.userId, resp.day) = resp.used


(***************************************************************************)
(* Credentials over their lifetime: the poll that issues one, the gateway  *)
(* that validates it, and a clock that reaches the expiry                  *)
(***************************************************************************)
\* the session of FirstUser after POST /login and GET /verify at time 0
FirstSession ==
    [session_id |-> 1, user_id |-> FirstUser.id, verify_token |-> 2,
     expires_at |-> SessionTtl, verified |-> 1]

InitCred ==
    /\ now = 0
    /\ users = {FirstUser}
    /\ auth_sessions = {FirstSession}
    /\ usage_daily = {}
    /\ inflight = EmptyBag
    /\ resp = NoResp
    /\ nextUuid = 4
    /\ issued = {}
    /\ sessionLog = (FirstSession.session_id :>
                        SessionEntry(FirstSession.user_id, FirstSession.verify_token,
                                     FirstSession.expires_at, 1, FALSE))
    /\ tally = [started |-> 0, allowed |-> 0, denied |-> 0, failed |-> 0,
                logins |-> 0]

\* the times just before, at and just after the expiry of an issued credential
ExpiryTimes == {c.payload.exp + d : c \in issued, d \in {0 - 1, 0, 1}}

\* the clock reaches one of these times
PassTime(t) ==
    /\ t > now
    /\ now' = t
    /\ resp' = NoResp
    /\ UNCHANGED <<storeVars, inflight, nextUuid, issued, sessionLog, tally>>

\* Authorization headers a client may send to the gateway
CredHeaderInputs ==
    {NoHeader}
        \cup {Bearer(m) : m \in MalformedTokens}
        \cup {Bearer(c) : c \in issued}
        \cup {Bearer(BtoaJson(p)) : p \in ForgedPayloads}

NextCred ==
    \/ PollStart(FirstSession.session_id)
    \/ \E h \in Waiting("poll", "delete") : PollDelete(h)
    \/ \E hd \in CredHeaderInputs, img \in BOOLEAN : OcrStart(hd, img, MaxOcr)
    \/ \E h \in Waiting("ocr", "extract") : OcrExtractOk(h)
    \/ \E h \in Waiting("ocr", "extract") : OcrExtractFail(h)
    \/ \E h \in Waiting("ocr", "write") : OcrWrite(h)
    \/ \E t \in ExpiryTimes : PassTime(t)

SpecCred == InitCred /\ [][NextCred]_vars

\* the header carries no credential, one that cannot be decoded, or one whose
\* expiry time (a positive exp claim) has passed
Uncredentialed(header, t) ==
    \/ ~header.present
    \/ header.token \in MalformedTokens
    \/ /\ header.token.fmt = "b64json"
       /\ header.token.payload.exp > 0
       /\ header.token.payload.exp < t

\* C13: a metered request whose credential is missing, malformed or expired is
\* answered 401 by the step that receives it: no handler is suspended (no
\* counter is read, the provider is not called) and no table changes.
C13_BadCredentialRejectedFirst ==
    [][\A hd \in CredHeaderInputs, img \in BOOLEAN :
          (Uncredentialed(hd, now) /\ OcrStart(hd, img, MaxOcr))
          => /\ resp'.op = "ocr"
             /\ resp'.outcome = "UNAUTHORIZED"
             /\ resp'.status = 401
             /\ inflight' = inflight
             /\ storeVars' = storeVars]_vars

\* C13 witness: an issued credential was refused as expired while the user had
\* a usage row and a request in flight
C13_Witness ==
    /\ resp.op = "ocr"
    /\ resp.outcome = "UNAUTHORIZED"
    /\ resp.error = "TOKEN_EXPIRED"
    /\ usage_daily # {}
    /\ \E c \in issued : c.payload.exp < now

\* the step lets a request carrying credential c past the credential check,
\* with the claims of c as the handler's user, plan and claims
AcceptedAs(c) ==
    \/ /\ resp'.op = "ocr"
       /\ resp'.outcome = "DENIED"
       /\ resp'.claims = c.payload
       /\ resp'.userId = c.payload.sub
       /\ resp'.plan = c.payload.plan
    \/ \E h \in BagToSet(inflight') :
          /\ h.op = "ocr"
          /\ CopiesIn(h, inflight') > CopiesIn(h, inflight)
          /\ h.claims = c.payload
          /\ h.userId = c.payload.sub
          /\ h.userPlan = c.payload.plan

\* C15: a credential issued by the poll carries the id, e-mail and plan of a
\* stored user; presented to the gateway at any time up to its exp claim it
\* passes the credential check and the handler works with exactly these
\* claims; presented at any later time it is refused as expired.
C15_CredentialRoundTrip ==
    [][\A c \in issued :
          /\ \E u \in users :
                /\ u.id = c.payload.sub
                /\ u.email = c.payload.email
                /\ u.plan = c.payload.plan
          /\ OcrStart(Bearer(c), TRUE, MaxOcr)
             => IF now <= c.payload.exp
                THEN AcceptedAs(c)
                ELSE /\ resp'.op = "ocr"
                     /\ resp'.outcome = "UNAUTHORIZED"
                     /\ resp'.error = "TOKEN_EXPIRED"
                     /\ inflight' = inflight]_vars

\* C15 witness: a request carrying an issued credential is in flight at the
\* very time the credential expires
C15_Witness ==
    \E c \in issued : \E h \in BagToSet(inflight) :
        /\ h.op = "ocr"
        /\ h.claims = c.payload
        /\ h.today = DayOf(c.payload.exp)
        /\ now = c.payload.exp

(***************************************************************************)
(* The federated login alone, from an empty database                       *)
(***************************************************************************)
Profiles == {<<Null, Null>>, <<"N", "P">>}

NextGoogle ==
    \/ \E e \in Emails, g \in GoogleTokens, p \in Profiles :
          GoogleStart(e, g, p[1], p[2], MaxLogins)
    \/ \E h \in Waiting("google", "introspect"), fetched \in BOOLEAN :
          GoogleIntrospect(h, fetched)
    \/ \E h \in Waiting("google", "insert_user") : GoogleInsertUser(h)
    \/ \E h \in Waiting("google", "update_user") : GoogleUpdateUser(h)
    \/ Tick

SpecGoogle == Init /\ [][NextGoogle]_vars

\* the provider was asked about the request's token, answered ok, and named
\* the e-mail the request claims
IntrospectedAs(checked, email) ==
    /\ checked.done
    /\ checked.fetched
    /\ checked.info.ok
    /\ checked.info.email = email

\* C14 (as claimed): the federated login issues a credential for a claimed
\* e-mail, and creates or updates the user row of it, only when the provider
\* was asked about the presented token, answered ok and returned that e-mail.
C14_IssuedOnlyAfterIntrospection ==
    /\ (resp.op = "google" /\ resp.outcome = "OK")
       => IntrospectedAs(resp.checked, resp.email)
    /\ \A h \in BagToSet(inflight) :
          (h.op = "google" /\ h.pc \in {"insert_user", "update_user"})
          => IntrospectedAs(h.checked, h.email)

(***************************************************************************)
(* The whole worker, one request at a time                                 *)
(***************************************************************************)
NextSeq ==
    \/ /\ inflight = EmptyBag
       /\ \/ \E e \in Emails : LoginStart(e, MaxLoginsAll)
          \/ \E in \in VerifyInputs : VerifyStart(in[1], in[2])
          \/ \E s \in SessionIdInputs \cup {Missing} : PollStart(s)
          \/ \E hd \in HeaderInputs, img \in BOOLEAN : OcrStart(hd, img, MaxOcr)
    \/ \E h \in Waiting("login", "insert_user") : LoginInsertUser(h)
    \/ \E h \in Waiting("login", "insert_session") : LoginInsertSession(h)
    \/ \E h \in Waiting("verify", "update") : VerifyUpdate(h)
    \/ \E h \in Waiting("poll", "delete") : PollDelete(h)
    \/ \E h \in Waiting("ocr", "extract") : OcrExtractOk(h)
    \/ \E h \in Waiting("ocr", "extract") : OcrExtractFail(h)
    \/ \E h \in Waiting("ocr", "write") : OcrWrite(h)
    \/ Tick

SpecSeq == Init /\ [][NextSeq]_vars

\* the step answers the request it receives with the given error and touches
\* nothing: no row of any table, no handler left waiting for the store or for
\* the provider, no credential issued
RejectedUntouched(op, outcomes) ==
    /\ resp'.op = op
    /\ resp'.outcome \in outcomes
    /\ resp'.status \in {400, 401}
    /\ storeVars' = storeVars
    /\ inflight' = inflight
    /\ issued' = issued

\* C19: a startLogin whose e-mail is empty or has no "@" is answered 400, and
\* a metered request without an image field is answered 400 (401 when its
\* credential is refused first); neither creates, updates or deletes a user,
\* session or usage row, and neither gets as far as the provider call.
C19_ValidationErrorsMutateNothing ==
    [][/\ \A e \in Emails :
             ((\A i \in DOMAIN e : e[i] # "@") /\ LoginStart(e, MaxLoginsAll))
             => RejectedUntouched("login", {"BAD_REQUEST"})
       /\ \A hd \in HeaderInputs :
             OcrStart(hd, FALSE, MaxOcr)
             => RejectedUntouched("ocr",
                    IF AuthMiddleware(hd, now).pass THEN {"BAD_REQUEST"}
                    ELSE {"UNAUTHORIZED"})]_vars

\* C19 witness: a request without image whose credential passed was answered
\* 400 after a startLogin with an invalid e-mail had been turned down, and
\* the tables are still empty
C19_Witness ==
    /\ resp.op = "ocr"
    /\ resp.outcome = "BAD_REQUEST"
    /\ tally.logins > 0
    /\ inflight = EmptyBag
    /\ storeVars = <<{}, {}, {}>>

(***************************************************************************)
(* One verify and one poll of the same session, in any interleaving        *)
(***************************************************************************)
\* the store after POST /login of FirstUser at time 0, the session verified
\* by an earlier GET /verify or not; the calls on the session are watched
InitPair ==
    /\ now = 0
    /\ users = {FirstUser}
    /\ \E v \in {0, 1} :
          /\ auth_sessions = {[FirstSession EXCEPT !.verified = v]}
          /\ sessionLog = (FirstSession.session_id :>
                              SessionEntry(FirstSession.user_id,
                                           FirstSession.verify_token,
                                           FirstSession.expires_at, v, TRUE))
    /\ usage_daily = {}
    /\ inflight = EmptyBag
    /\ resp = NoResp
    /\ nextUuid = 4
    /\ issued = {}
    /\ tally = [started |-> 0, allowed |-> 0, denied |-> 0, failed |-> 0,
                logins |-> 0]

\* the history entry of the watched session
Watched == sessionLog[FirstSession.session_id]

NextPair ==
    \/ /\ Watched.verify = "idle"
       /\ VerifyStart(FirstSession.session_id, FirstSession.verify_token)
    \/ \E h \in Waiting("verify", "update") : VerifyUpdate(h)
    \/ /\ Watched.poll = "idle"
       /\ PollStart(FirstSession.session_id)
    \/ \E h \in Waiting("poll", "delete") : PollDelete(h)
    \/ Tick

SpecPair == InitPair /\ [][NextPair]_vars

\* GET /verify run alone at time t on the rows of one session: SELECT, expiry
\* check, UPDATE
SeqVerify(rows, token, t) ==
    LET found == {s \in rows : s.verify_token = token} IN
    IF found = {} THEN [outcome |-> "NOT_FOUND", rows |-> rows]
    ELSE IF VerifyExpired(CHOOSE s \in found : TRUE, t)
    THEN [outcome |-> "EXPIRED", rows |-> rows]
    ELSE [outcome |-> "OK", rows |-> {[s EXCEPT !.verified = 1] : s \in rows}]

\* GET /poll run alone at time t on the rows of one session: SELECT, pending
\* check, DELETE
SeqPoll(rows, t) ==
    LET live == {s \in rows : s.expires_at > t} IN
    IF live = {} THEN [outcome |-> "NOT_FOUND_OR_EXPIRED", rows |-> rows]
    ELSE IF StillPending(CHOOSE s \in live : TRUE)
    THEN [outcome |-> "PENDING", rows |-> rows]
    ELSE [outcome |-> "CONSUMED", rows |-> {}]

\* <<verify outcome, poll outcome, final rows>> of the two sequential orders
\* of the two calls on the given rows, the first call at any time of the clock
\* and the second at the same or any later time
SequentialResults(rows, token) ==
    UNION {
        { LET v == SeqVerify(rows, token, t1)
              p == SeqPoll(v.rows, t2)
          IN <<v.outcome, p.outcome, p.rows>>,
          LET p == SeqPoll(rows, t1)
              v == SeqVerify(p.rows, token, t2)
          IN <<v.outcome, p.outcome, v.rows>> }
        : <<t1, t2>> \in {tt \in (0..MaxNow) \X (0..MaxNow) : tt[1] <= tt[2]} }

\* both watched calls have been answered
PairDone == Watched.verify \notin {"idle", "running"} /\ Watched.poll \notin {"idle", "running"}

\* C20 (as claimed): when one verify and one poll of the same session have both
\* been answered, however their steps were interleaved, the two outcomes and
\* the session row that is left are those of the verify run alone followed by
\* the poll run alone, or of the poll followed by the verify.
C20_VerifyPollLinearizable ==
    PairDone =>
        <<Watched.verify, Watched.poll, Row(FirstSession.session_id)>>
            \in SequentialResults(
                    {[FirstSession EXCEPT !.verified = Watched.verifiedAtStart]},
                    FirstSession.verify_token)

\* C21: in every state there is at most one usage row per (user, date) and
\* every count is at least 0; and no step lowers the count of a stored row or
\* removes a row.
C21_UsageRowsUniqueAndMonotone ==
    /\ [](\A r \in usage_daily :
            /\ r.count >= 0
            /\ \A q \in usage_daily :
                  (q.user_id = r.user_id /\ q.date = r.date) => q = r)
    /\ [][\A r \in usage_daily : \E q \in usage_daily' :
             /\ q.user_id = r.user_id
             /\ q.date = r.date
             /\ q.count >= r.count]_vars

\* C21 witness: the row of a second day was created while the row of the
\* first day is kept, and a second INSERT for that day was refused
C21_Witness ==
    /\ resp.op = "ocr"
    /\ resp.outcome = "STORE_FAILED"
    /\ Cardinality(usage_daily) > 1

\* C25 (as claimed): the `used` of a successful response is the count stored
\* for that user and day right after the request's own increment, and its
\* `remaining` is the limit minus that stored count, also when another request
\* of the same user overlaps.
C25_ReportedUsageIsStoredCount ==
    (resp.op = "ocr" /\ resp.outcome = "OK")
        => /\ resp.used = StoredCount(resp.userId, resp.day)
           /\ resp.remaining = resp.limit.n - StoredCount(resp.userId, resp.day)

\* calls of callGeminiOCR that have returned a text so far
ExtractedOk ==
    tally.allowed - tally.failed
        - BagCardinality([h \in Waiting("ocr", "extract") |-> inflight[h]])

\* C29 (as claimed): once all requests of the user on one day have been
\* answered, however they were interleaved, the stored count of that day is the
\* number of provider calls that returned successfully; two overlapping
\* first-of-the-day requests are both counted.
C29_CountEqualsSuccessfulExtractions ==
    (inflight = EmptyBag /\ DayOf(now) = 0)
        => StoredCount(FirstUser.id, 0) = ExtractedOk

\* C28 (as claimed): when verify answers OK, the session row is stored with
\* verified = 1 at that moment; a verify that overlaps the poll which deletes
\* the session does not answer OK for the consumed session.
C28_VerifyOkMeansVerifiedRowStored ==
    (resp.op = "verify" /\ resp.outcome = "OK")
        => \E s \in Row(resp.sessionId) : s.verified = 1

(***************************************************************************)
(* The gateway under credentials that carry any plan value                 *)
(***************************************************************************)
\* plan values of a payload: the four plans, a name that is no plan, an absent
\* plan, and a name that every object inherits
PlanInputs == OwnPlans \cup {"gold", Null} \cup ProtoProps

\* the first credential with its plan field rewritten; the middleware reads
\* the payload without checking a signature
PlanCredential(plan) == BtoaJson([FirstCredential.payload EXCEPT !.plan = plan])

NextCeiling ==
    \/ \E p \in PlanInputs :
          OcrStart(Bearer(PlanCredential(p)), TRUE, PriorUses + MaxBurst)
    \/ \E h \in Waiting("ocr", "extract") : OcrExtractOk(h)
    \/ \E h \in Waiting("ocr", "extract") : OcrExtractFail(h)
    \/ \E h \in Waiting("ocr", "write") : OcrWrite(h)
    \/ Midnight

SpecCeiling == InitOcrBurst /\ [][NextCeiling]_vars

\* the ceiling the plan of a credential stands for
CeilingByPlan(plan) == IF plan \in OwnPlans THEN limits[plan] ELSE FreeCeiling

\* C24 (as claimed): the ceiling applied to a request is 20 for free, 1000 for
\* pro, 5000 for pro-plus, 999999 for enterprise and 20 for any other plan
\* value of the credential, an absent plan included: a request is admitted
\* only when the count it read is below that ceiling, and is denied only when
\* the count it read has reached it.
C24_CeilingByPlan ==
    /\ \A h \in BagToSet(inflight) :
          h.op = "ocr" => h.used < CeilingByPlan(h.userPlan)
    /\ (resp.op = "ocr" /\ resp.outcome = "DENIED")
          => resp.usedBefore >= CeilingByPlan(resp.plan)

(***************************************************************************)
(* Both login paths, refresh and the gateway for one user whose plan       *)
(* changes                                                                 *)
(***************************************************************************)
\* the user has a verified magic-link session to poll and is one use below the
\* free ceiling today
InitIssue ==
    /\ now = 0
    /\ users = {FirstUser}
    /\ auth_sessions = {FirstSession}
    /\ usage_daily = {[user_id |-> FirstUser.id, date |-> 0, count |-> PriorUses + 1]}
    /\ inflight = EmptyBag
    /\ resp = NoResp
    /\ nextUuid = 4
    /\ issued = {}
    /\ sessionLog = (FirstSession.session_id :>
                        SessionEntry(FirstSession.user_id, FirstSession.verify_token,
                                     FirstSession.expires_at, 1, FALSE))
    /\ tally = [started |-> PriorUses + 1, allowed |-> PriorUses + 1, denied |-> 0,
                failed |-> 0, logins |-> 0]

\* the plans the stored plan moves between
PlanChanges == {"free", "pro"}

\* Authorization headers a client may send to /refresh
RefreshHeaderInputs == {NoHeader, Bearer(ForeignJwt)} \cup {Bearer(c) : c \in issued}

NextIssue ==
    \/ PollStart(FirstSession.session_id)
    \/ \E h \in Waiting("poll", "delete") : PollDelete(h)
    \/ \E p \in Profiles :
          GoogleStart(FirstUser.email, NoGoogleToken, p[1], p[2], MaxLoginsAll)
    \/ \E h \in Waiting("google", "update_user") : GoogleUpdateUser(h)
    \/ \E hd \in RefreshHeaderInputs : Refresh(hd)
    \/ \E q \in PlanChanges : ChangePlan(FirstUser.id, q)
    \/ \E c \in issued : OcrStart(Bearer(c), TRUE, PriorUses + 1 + MaxOcr)
    \/ \E h \in Waiting("ocr", "extract") : OcrExtractOk(h)
    \/ \E h \in Waiting("ocr", "extract") : OcrExtractFail(h)
    \/ \E h \in Waiting("ocr", "write") : OcrWrite(h)

SpecIssue == InitIssue /\ [][NextIssue]_vars

\* the plans stored for a user now
StoredPlans(userId) == {u.plan : u \in UsersById(userId)}

\* the gateway limits a request by the plan inside its credential, whatever is
\* stored: it admits the request only below that plan's ceiling and denies it
\* only at or above it
LimitedByEmbeddedPlan ==
    /\ \A h \in BagToSet(inflight) :
          h.op = "ocr" => h.used < CeilingByPlan(h.claims.plan)
    /\ (resp.op = "ocr" /\ resp.outcome = "DENIED")
          => resp.usedBefore >= CeilingByPlan(resp.claims.plan)

\* a credential given out by /refresh carries the plan stored for its subject
RefreshCarriesStoredPlan ==
    (resp.op = "refresh" /\ resp.outcome = "OK")
        => /\ resp.token \in issued
           /\ StoredPlans(resp.token.payload.sub) = {resp.token.payload.plan}

\* the response hands out a credential that carries the plan stored now, which
\* is not the plan of a credential the same user already holds
IssuesChangedPlan ==
    /\ resp.op \in {"poll", "google", "refresh"}
    /\ "token" \in DOMAIN resp
    /\ StoredPlans(resp.token.payload.sub) = {resp.token.payload.plan}
    /\ \E c \in issued :
          /\ c.payload.sub = resp.token.payload.sub
          /\ c.payload.plan # resp.token.payload.plan

\* C26 (as claimed): the gateway applies the ceiling of the plan embedded in
\* the credential, also after the stored plan has changed, a refresh hands out
\* a credential with the stored plan, and only a refresh hands out a credential
\* with the stored plan once that differs from the plan of a credential issued
\* before.
C26_OnlyRefreshCarriesNewPlan ==
    /\ LimitedByEmbeddedPlan
    /\ RefreshCarriesStoredPlan
    /\ IssuesChangedPlan => resp.op = "refresh"

\* C26 (amended): the gateway applies the ceiling of the plan embedded in the
\* credential, also after the stored plan has changed; a refresh hands out a
\* credential with the plan stored for the user, and a later login (poll of a
\* magic-link session, federated login) hands out a credential with the plan
\* its handler read from the user row.
C26_EmbeddedPlanUntilReissued ==
    /\ LimitedByEmbeddedPlan
    /\ RefreshCarriesStoredPlan
    /\ (resp.op \in {"poll", "google"} /\ "token" \in DOMAIN resp)
          => /\ resp.token \in issued
             /\ resp.token.payload.plan = resp.user.plan

\* C26 witness: a request with the credential issued under plan free is denied
\* at the free ceiling while plan pro is stored and a signed credential
\* carrying plan pro has been issued since
C26_Witness ==
    /\ resp.op = "ocr"
    /\ resp.outcome = "DENIED"
    /\ resp.claims.plan = "free"
    /\ resp.usedBefore = FreeCeiling
    /\ StoredPlans(resp.userId) = {"pro"}
    /\ \E c \in issued : c.fmt = "jwt" /\ c.payload.plan = "pro"

\* C27 (as claimed): every credential issued by the federated login or by the
\* magic-link poll passes the validation of the gateway, which yields the
\* subject, e-mail and plan the credential was issued with.
C27_BothPathsAcceptedByGateway ==
    \A c \in issued :
        LET ctx == AuthMiddleware(Bearer(c), now) IN
        /\ ctx.pass
        /\ ctx.userId = c.payload.sub
        /\ ctx.userEmail = c.payload.email
        /\ ctx.userPlan = c.payload.plan

(***************************************************************************)
(* Claims about credentials                                                *)
(***************************************************************************)
\* C4 (as claimed): the gateway lets a request past its credential check only
\* with the claims of a credential a login route has issued; no other claims
\* reach the handler that selects the plan ceiling and the usage counter.
C4_OnlyIssuedClaimsAccepted ==
    /\ \A h \in BagToSet(inflight) :
          h.op = "ocr" => BtoaJson(h.claims) \in issued
    /\ (resp.op = "ocr" /\ resp.outcome \in {"OK", "DENIED", "EXTRACT_FAILED", "STORE_FAILED"})
       => BtoaJson(resp.claims) \in issued

====
